---- MODULE Spec2Model ----
(***************************************************************************)
(* trencat/Train: the dynamics engine (package core), the state machine    *)
(* and the ATP supervisor (package atp) with its clients.                  *)
(*                                                                         *)
(* Units.  The source computes with float64 and time.Time; the model uses  *)
(* integers:                                                               *)
(*   time          whole seconds (the clock is read as an integer)         *)
(*   velocity      0.01 m/s      (so the source's 0.01 is 1)               *)
(*   acceleration  0.01 m/s^2    (so the source's 0.01 is 1)               *)
(*   position      0.005 m       (so that 0.5*(v+v')*dt is (v+v')*dt)      *)
(*   force         mass unit * acceleration unit                           *)
(* A quotient of the source is the integer quotient \div.                  *)
(***************************************************************************)
EXTENDS Integers, Sequences, FiniteSets

\* Last clock value at which the supervisor still sleeps and ticks again.
MaxTime == 8

\* Number of calls the clients make in one run.
MaxCalls == 3

\* math.Inf(-1): below every finite setpoint and every finite acceleration.
NegInf == -1000

\* time.Time{}: the zero time, long before every clock value.
ZeroTime == -1000

\* The hardcoded 0.01 of the no-reverse rule and of Stopped, in model units.
Epsilon == 1

\* Heartbeat threshold, time.Duration(5) * time.Second.
updateTimeout == 5

\* Warning dwell, time.Duration(5) * time.Second.
warningTimeout == 5

\* Average mass of a passenger.
PassengerMass == 70

\* State machine constants.
Init == 0
On == 10
Active == 20
Warning == 30
Alarm == 40
Panic == 50
Shutdown == 60
Off == 70

States == {Init, On, Active, Warning, Alarm, Panic, Shutdown, Off}

VelocityError == "Velocity"
AccelerationError == "Acceleration"
ForceError == "Force"

\* The value of F at v, with v computed once.
With(v, F(_)) == CHOOSE r \in {F(x) : x \in {v}} : TRUE

\* math.Max as it would be if it always returned its second argument.
MaxSecond(a, b) == b

\* math.Max
Max(a, b) == IF a >= b THEN a ELSE b

(***************************************************************************)
(* package core: data                                                      *)
(***************************************************************************)

\* The train of the scenarios.
Train ==
  [ID |-> 1, Mass |-> 1, MassFactor |-> 1, Length |-> 1,
   MaxTraction |-> 1, MaxBrake |-> 2, MaxVelocity |-> 2,
   ResistanceLin |-> 0, ResistanceQua |-> 0]

TrackIDs == {1, 2}

\* The tracks clients build routes from.  Slope holds gravity*sin(slope) in
\* acceleration units; BendRadius is in metres.
Track(id) ==
  IF id = 1
    THEN [ID |-> 1, Length |-> 4, MaxVelocity |-> 1, Slope |-> 0,
          BendRadius |-> 1000000, Tunnel |-> FALSE]
    ELSE [ID |-> id, Length |-> 2, MaxVelocity |-> 2, Slope |-> 0,
          BendRadius |-> 1000000, Tunnel |-> TRUE]

ZeroTrack ==
  [ID |-> 0, Length |-> 0, MaxVelocity |-> 0, Slope |-> 0,
   BendRadius |-> 0, Tunnel |-> FALSE]

Setpoint(v, t) == [Value |-> v, Time |-> t]

ZeroSetpoint == Setpoint(0, ZeroTime)

\* Warnings{}: no record of either kind.
NoWarnings == [OutOfBounds |-> << >>, Heartbeat |-> << >>]

Any(w) == Len(w.OutOfBounds) >= 1 \/ Len(w.Heartbeat) >= 1

OutOfBounds(type, min, max, value) ==
  [Type |-> type, Min |-> min, Max |-> max, Value |-> value]

Heartbeat(last, threshold) == [LastTime |-> last, Threshold |-> threshold]

\* Warnings.Append for the two kinds the engine appends.
AppendOutOfBounds(w, v) == [w EXCEPT !.OutOfBounds = Append(@, v)]

AppendHeartbeat(w, v) == [w EXCEPT !.Heartbeat = Append(@, v)]

ZeroSensors ==
  [Time |-> ZeroTime, Setpoint |-> ZeroSetpoint, Position |-> 0,
   Velocity |-> 0, Acceleration |-> 0, TractionForce |-> 0,
   BrakingForce |-> 0, TractionPower |-> 0, BrakingPower |-> 0, Mass |-> 0,
   TrackID |-> 0, RelPosition |-> 0, Slope |-> 0, BendRadius |-> 0,
   Tunnel |-> FALSE, Resistance |-> 0, BasicRes |-> 0, SlopeRes |-> 0,
   CurveRes |-> 0, TunnelRes |-> 0, LineRes |-> 0, NumPassengers |-> 0,
   Warnings |-> NoWarnings, Alarms |-> NoWarnings]

\* The ids of a route, in order.
RouteIDs(route) == [i \in 1..Len(route) |-> route[i].ID]

\* core.addRoute: store the tracks and replace the route by their ids.
addRoute(c, route) ==
  [c EXCEPT
     !.tracks = [id \in (DOMAIN c.tracks) \cup {route[i].ID : i \in 1..Len(route)} |->
                   IF \E i \in 1..Len(route) : route[i].ID = id
                     THEN LET last == CHOOSE i \in 1..Len(route) :
                                        /\ route[i].ID = id
                                        /\ \A j \in 1..Len(route) :
                                             route[j].ID = id => j <= i
                          IN route[last]
                     ELSE c.tracks[id]],
     !.route = [i \in 1..Len(route) |-> route[i].ID]]

\* core.getRoute(index), index counted from 0 as in the source.
getRoute(c, index) ==
  IF index >= Len(c.route) \/ index < 0
    THEN [track |-> ZeroTrack, err |-> TRUE]
    ELSE IF c.route[index + 1] \notin DOMAIN c.tracks
      THEN [track |-> ZeroTrack, err |-> TRUE]
      ELSE [track |-> c.tracks[c.route[index + 1]], err |-> FALSE]

\* core.popRoute as it would be if it left the route alone.
popRouteNone(c) == c

\* core.popRoute
popRoute(c) ==
  IF Len(c.route) = 0 THEN c ELSE [c EXCEPT !.route = Tail(@)]

\* core.New
CoreNew(train, route, sensors) ==
  addRoute([train |-> train, tracks |-> << >>, route |-> << >>,
            sensors |-> sensors], route)

\* SetRoute as it would be without the comparison with the current track.
CoreSetRouteUnchecked(c, route) ==
  [core |-> addRoute(c, route), err |-> FALSE, panic |-> FALSE]

\* core.SetRoute.  panic: route[0] of an empty route is an index out of range.
CoreSetRoute(c, route) ==
  IF Len(c.route) > 0 /\ getRoute(c, 0).err
    THEN [core |-> c, err |-> TRUE, panic |-> FALSE]
    ELSE IF Len(c.route) > 0 /\ Len(route) = 0
      THEN [core |-> c, err |-> FALSE, panic |-> TRUE]
      ELSE IF Len(c.route) > 0 /\ route[1].ID # getRoute(c, 0).track.ID
        THEN [core |-> c, err |-> TRUE, panic |-> FALSE]
        ELSE [core |-> addRoute(c, route), err |-> FALSE, panic |-> FALSE]

\* core.EmergencyBrakeSetpoint at clock value t.
EmergencyBrakeSetpoint(t) == Setpoint(NegInf, t)

\* The reverse-gear test as it would be if it never held.
reverseGearNever(setpoint, velocity) == FALSE

\* The test of UpdateSensorsAcceleration for a setpoint that would drive a
\* standing train backwards: "setpoint < 0.0 && new.Velocity < 0.01".
reverseGear(setpoint, velocity) == setpoint < 0 /\ velocity < Epsilon

\* core.UpdateSensorsAcceleration(sp, until) on core c.  The result holds
\* the core as the call leaves it, the sensors returned and the error flag.
\* The locals that the function assigns once and reads many times (the
\* track, the velocity, the resistance, the acceleration, the force) are
\* bound with With.
UpdateSensorsAcceleration(c, sp, until) ==
  LET prev == c.sensors
      train == c.train
      first == getRoute(c, 0)
      beginNewTrack == ~first.err /\ prev.RelPosition > first.track.Length
      c1 == IF beginNewTrack THEN popRoute(c) ELSE c
      deltaSec == until - prev.Time
      NumPassengers == prev.NumPassengers
      Mass == train.Mass + NumPassengers * PassengerMass
      setpoint == sp.Value
      setpointElapsed == until - prev.Setpoint.Time
      alarms == IF setpointElapsed >= updateTimeout
                  THEN AppendHeartbeat(NoWarnings,
                         Heartbeat(sp.Time, updateTimeout))
                  ELSE NoWarnings
  IN IF first.err
       THEN [core |-> c, sensors |-> ZeroSensors, err |-> TRUE]
       ELSE
  With(IF beginNewTrack THEN getRoute(c1, 0) ELSE first, LAMBDA got :
  IF got.err
    THEN [core |-> c1, sensors |-> ZeroSensors, err |-> TRUE]
    ELSE
  With(Max(0, prev.Velocity + deltaSec * prev.Acceleration), LAMBDA Velocity0 :
  LET track == got.track
      w1 == IF Velocity0 > train.MaxVelocity
              THEN AppendOutOfBounds(NoWarnings,
                     OutOfBounds(VelocityError, 0, train.MaxVelocity, Velocity0))
              ELSE NoWarnings
      w2 == IF Velocity0 > track.MaxVelocity
              THEN AppendOutOfBounds(w1,
                     OutOfBounds(VelocityError, 0, track.MaxVelocity, Velocity0))
              ELSE w1
      travelled == (prev.Velocity + Velocity0) * deltaSec
      Position == prev.Position + travelled
      RelPosition == IF beginNewTrack THEN travelled
                     ELSE prev.RelPosition + travelled
      SlopeRes == Mass * track.Slope
      BasicRes == IF track.Slope # 0 \/ Velocity0 # 0
                    THEN Mass * (train.ResistanceLin
                                 + train.ResistanceQua * Velocity0 * Velocity0)
                    ELSE 0
      CurveRes == IF Velocity0 # 0
                    THEN IF track.BendRadius <= 100 THEN 0
                         ELSE IF track.BendRadius < 300
                           THEN (491 * Mass) \div (track.BendRadius - 55)
                           ELSE (630 * Mass) \div (track.BendRadius - 55)
                    ELSE 0
      TunnelRes == IF track.Tunnel
                     THEN ((1296 * Max(track.Length - RelPosition, 0) * 981
                            * Velocity0 * Velocity0) \div 1000000000)
                          \div 2000000000
                     ELSE 0
      LineRes == SlopeRes + CurveRes + TunnelRes
  IN
  With(BasicRes + LineRes, LAMBDA Resistance :
  LET maxAcceleration == (train.MaxTraction - Resistance)
                           \div (Mass * train.MassFactor)
      maxDeceleration == ((-1) * train.MaxBrake - Resistance)
                           \div (Mass * train.MassFactor)
      over == setpoint > 0 /\ setpoint > maxAcceleration
      under == ~over /\ setpoint < 0 /\ setpoint < maxDeceleration
      w3 == IF over \/ (under /\ setpoint # NegInf)
              THEN AppendOutOfBounds(w2,
                     OutOfBounds(AccelerationError, maxDeceleration,
                                 maxAcceleration, setpoint))
              ELSE w2
      Acceleration0 == IF over THEN maxAcceleration
                       ELSE IF under THEN maxDeceleration ELSE setpoint
      noReverse == reverseGear(setpoint, Velocity0)
      Acceleration1 == IF noReverse THEN 0 ELSE Acceleration0
      Velocity == IF noReverse THEN 0 ELSE Velocity0
  IN
  With(IF Velocity = Epsilon /\ Acceleration1 < 0 THEN 0 ELSE Acceleration1,
       LAMBDA Acceleration :
  With(Mass * train.MassFactor * Acceleration + Resistance, LAMBDA force :
  LET w4 == IF force >= 0
              THEN IF force > train.MaxTraction
                     THEN AppendOutOfBounds(w3,
                            OutOfBounds(ForceError, 0, train.MaxTraction, force))
                     ELSE w3
              ELSE IF -force > train.MaxBrake
                     THEN AppendOutOfBounds(w3,
                            OutOfBounds(ForceError, 0, train.MaxBrake, -force))
                     ELSE w3
      TractionForce == IF force >= 0
                         THEN IF force > train.MaxTraction
                                THEN train.MaxTraction ELSE force
                         ELSE 0
      BrakingForce == IF force >= 0 THEN 0
                      ELSE IF -force > train.MaxBrake
                        THEN -train.MaxBrake ELSE -force
      new == [Time |-> until, Setpoint |-> sp, Position |-> Position,
              Velocity |-> Velocity, Acceleration |-> Acceleration,
              TractionForce |-> TractionForce, BrakingForce |-> BrakingForce,
              TractionPower |-> TractionForce * Velocity,
              BrakingPower |-> BrakingForce * Velocity, Mass |-> Mass,
              TrackID |-> track.ID, RelPosition |-> RelPosition,
              Slope |-> track.Slope, BendRadius |-> track.BendRadius,
              Tunnel |-> track.Tunnel, Resistance |-> Resistance,
              BasicRes |-> BasicRes, SlopeRes |-> SlopeRes,
              CurveRes |-> CurveRes, TunnelRes |-> TunnelRes,
              LineRes |-> LineRes, NumPassengers |-> NumPassengers,
              Warnings |-> w4, Alarms |-> alarms]
  IN With(new, LAMBDA sensors :
       [core |-> [c1 EXCEPT !.sensors = sensors], sensors |-> sensors,
        err |-> FALSE]))))))

\* core.UpdateSensors: the wrapper around UpdateSensorsAcceleration.
UpdateSensors(c, sp, until) == UpdateSensorsAcceleration(c, sp, until)

\* core.Sensors
CoreSensors(c) == c.sensors

(***************************************************************************)
(* package atp: the state machine                                          *)
(***************************************************************************)

\* newStateMachine
newStateMachine == [state |-> On, prevState |-> Init]

\* canSet as it would be if Off could only be entered from Shutdown.
canSetOffFromShutdown(sm, to) ==
  LET from == sm.state
  IN \/ from = to
     \/ (from = On /\ to = Active)
     \/ (from = Active /\ to = On)
     \/ (from = On /\ to = Warning)
     \/ (from = Active /\ to = Warning)
     \/ (from = Warning /\ to = Active)
     \/ to = Alarm
     \/ to = Panic
     \/ to = Shutdown
     \/ (from = Alarm /\ to = On)
     \/ (from = Shutdown /\ to = Off)

\* canSet as it would be without the Panic term.
canSetNoPanic(sm, to) ==
  LET from == sm.state
  IN \/ from = to
     \/ (from = On /\ to = Active)
     \/ (from = Active /\ to = On)
     \/ (from = On /\ to = Warning)
     \/ (from = Active /\ to = Warning)
     \/ (from = Warning /\ to = Active)
     \/ to = Alarm
     \/ to = Shutdown
     \/ (from = Alarm /\ to = On)
     \/ to = Off

\* canSet as it would be if Shutdown could only be entered from Active.
canSetShutdownFromActive(sm, to) ==
  LET from == sm.state
  IN \/ from = to
     \/ (from = On /\ to = Active)
     \/ (from = Active /\ to = On)
     \/ (from = On /\ to = Warning)
     \/ (from = Active /\ to = Warning)
     \/ (from = Warning /\ to = Active)
     \/ to = Alarm
     \/ to = Panic
     \/ (from = Active /\ to = Shutdown)
     \/ (from = Alarm /\ to = On)
     \/ to = Off

\* stateMachine.canSet with from = sm.state.
canSet(sm, to) ==
  LET from == sm.state
  IN \/ from = to
     \/ (from = On /\ to = Active)
     \/ (from = Active /\ to = On)
     \/ (from = On /\ to = Warning)
     \/ (from = Active /\ to = Warning)
     \/ (from = Warning /\ to = Active)
     \/ to = Alarm
     \/ to = Panic
     \/ to = Shutdown
     \/ (from = Alarm /\ to = On)
     \/ to = Off

\* set as it would be if it did not record the state it leaves.
setKeepsPrevState(sm, to) ==
  IF sm.state = to
    THEN [sm |-> sm, err |-> FALSE]
    ELSE IF ~canSet(sm, to)
      THEN [sm |-> sm, err |-> TRUE]
      ELSE [sm |-> [state |-> to, prevState |-> sm.prevState], err |-> FALSE]

\* set as it would be if a call with the current state were recorded as a
\* transition.
setRecordsSameState(sm, to) ==
  IF ~canSet(sm, to)
    THEN [sm |-> sm, err |-> TRUE]
    ELSE [sm |-> [state |-> to, prevState |-> sm.state], err |-> FALSE]

\* stateMachine.set: the machine after the call and the error flag.
set(sm, to) ==
  IF sm.state = to
    THEN [sm |-> sm, err |-> FALSE]
    ELSE IF ~canSet(sm, to)
      THEN [sm |-> sm, err |-> TRUE]
      ELSE [sm |-> [state |-> to, prevState |-> sm.state], err |-> FALSE]

\* Stopped(sensors)
Stopped(sensors) == sensors.Velocity < Epsilon /\ sensors.Acceleration < Epsilon
(***************************************************************************)
(* package atp: the supervisor                                             *)
(***************************************************************************)

\* The goroutines that call the exported methods.  A goroutine that is not
\* inside a call holds nothing, so a new call is always made by the first
\* free one.
Clients == {1, 2}

NoClient == 0

\* Setpoint values clients submit: below the maximal deceleration minus
\* nothing (-2 is the braking limit on a flat track), 0, the traction limit
\* 1 and 2 above it.
UserSetpoints == {-2, 0, 1, 2}

\* The routes clients submit: the two orders of the two tracks (one of them
\* starts with the current track, the other does not) and the empty route.
Routes == {<<Track(1), Track(2)>>, <<Track(2), Track(1)>>, << >>}

\* The sensors handed to New: a train on the first track that is stopped,
\* moves at the track's velocity limit or moves above it; nothing recorded.
InitSensors ==
  {[ZeroSensors EXCEPT !.Velocity = v, !.TrackID = 1, !.Mass = Train.Mass] :
     v \in {0, 1, 2}}

VARIABLES
  now,        \* the wall clock, time.Now()
  atp,        \* the Atp struct: core, userSetpoint, setpoint, state, nextAlarm
  api,        \* the api channels: closed by offRoutine or still open
  pc,         \* where the run loop stands
  clients,    \* each client goroutine: its call, its argument and its result
  calls,      \* the number of calls made so far
  lastTick,   \* the state in which the last state routine started and the
              \* sensors and state it left
  acceptedIn  \* the state in which setRoutine last accepted a setpoint

vars == <<now, atp, api, pc, clients, calls, lastTick, acceptedIn>>

\* A call's result: the error of Start and SetRoute, the snapshot of Sensors.
Reply(err, sensors, state) == [err |-> err, Sensors |-> sensors, State |-> state]

NoReply == Reply(FALSE, ZeroSensors, Init)

NoArg == [sp |-> ZeroSetpoint, route |-> << >>]

Idle == [pc |-> "idle", op |-> "none", arg |-> NoArg, ret |-> NoReply]

\* A panic in any goroutine ends the process.
Crashed == pc = "panic" \/ \E c \in Clients : clients[c].pc = "panic"

\* A call has just returned and its caller is taking the result: "done" only
\* exposes the result of the call, so nothing else is interleaved with it.
Taking == \E c \in Clients : clients[c].pc = "done"

Halted == Crashed \/ Taking

\* Atp.getSensors as it would be if it read the state before the current one.
getSensorsPrevState(a) ==
  Reply(FALSE, CoreSensors(a.core), a.state.prevState)

\* Atp.getSensors
getSensors(a) == Reply(FALSE, CoreSensors(a.core), a.state.state)

\* Atp.updateSensors at clock value t: the core after the update, the sensors
\* returned (the Heartbeat alarm deleted when the state is On) and the error.
updateSensors(a, t) ==
  With(UpdateSensors(a.core, a.setpoint, t), LAMBDA r :
    LET heartbeatAlarm == Len(r.sensors.Alarms.Heartbeat) >= 1
    IN [core |-> r.core,
        sensors |-> IF ~r.err /\ heartbeatAlarm /\ a.state.state = On
                      THEN [r.sensors EXCEPT !.Alarms.Heartbeat = << >>]
                      ELSE r.sensors,
        err |-> r.err])

\* onRoutine as it would be if the alarms were tested only when there is no
\* warning.
onRoutineElseAlarms(a, t) ==
  With(updateSensors(a, t), LAMBDA u :
    LET a1 == [a EXCEPT !.core = u.core]
        s1 == IF Any(u.sensors.Warnings) THEN set(a1.state, Warning).sm
              ELSE a1.state
        s2 == IF ~Any(u.sensors.Warnings) /\ Any(u.sensors.Alarms)
                THEN set(s1, Alarm).sm ELSE s1
    IN IF u.err
         THEN [atp |-> [a1 EXCEPT !.state = set(a1.state, Panic).sm],
               panic |-> TRUE]
         ELSE [atp |-> [a1 EXCEPT !.state = s2], panic |-> FALSE])

\* Atp.onRoutine
onRoutine(a, t) ==
  With(updateSensors(a, t), LAMBDA u :
    LET a1 == [a EXCEPT !.core = u.core]
        s1 == IF Any(u.sensors.Warnings) THEN set(a1.state, Warning).sm
              ELSE a1.state
        s2 == IF Any(u.sensors.Alarms) THEN set(s1, Alarm).sm ELSE s1
    IN IF u.err
         THEN [atp |-> [a1 EXCEPT !.state = set(a1.state, Panic).sm],
               panic |-> TRUE]
         ELSE [atp |-> [a1 EXCEPT !.state = s2], panic |-> FALSE])

\* activeRoutine as it would be if it kept the setpoint of the previous tick.
activeRoutineKeepsSetpoint(a, t) == onRoutine(a, t)

\* Atp.activeRoutine
activeRoutine(a, t) == onRoutine([a EXCEPT !.setpoint = a.userSetpoint], t)

\* The "Trigger alarm" tail as it would be if the timeout were counted again
\* from the deadline.
triggerAlarmTimeoutTwice(b, t) ==
  IF b.nextAlarm # ZeroTime /\ t - b.nextAlarm > warningTimeout
    THEN [b EXCEPT !.state = set(b.state, Alarm).sm, !.nextAlarm = ZeroTime]
    ELSE b

\* The "Trigger alarm" tail of warningRoutine.
triggerAlarm(b, t) ==
  IF b.nextAlarm # ZeroTime /\ t - b.nextAlarm > 0
    THEN [b EXCEPT !.state = set(b.state, Alarm).sm, !.nextAlarm = ZeroTime]
    ELSE b

\* Atp.warningRoutine
warningRoutine(a, t) ==
  With(activeRoutine(a, t), LAMBDA r :
    LET b == r.atp
        sensors == CoreSensors(b.core)
        armed == IF b.nextAlarm = ZeroTime
                   THEN [b EXCEPT !.nextAlarm = t + warningTimeout] ELSE b
        cleared == [b EXCEPT !.nextAlarm = ZeroTime]
        prev == b.state.prevState
    IN IF r.panic \/ b.state.state # Warning
         THEN r
         ELSE IF Any(sensors.Warnings)
           THEN [atp |-> triggerAlarm(armed, t), panic |-> FALSE]
           ELSE IF prev = On \/ prev = Active
             THEN [atp |-> [cleared EXCEPT
                              !.state = set(cleared.state, prev).sm],
                   panic |-> FALSE]
             ELSE [atp |-> triggerAlarm(cleared, t), panic |-> FALSE])

\* alarmRoutine as it would be if it took the user setpoint like
\* activeRoutine instead of the emergency brake.
alarmRoutineUserSetpoint(a, t) ==
  With([a EXCEPT !.setpoint = a.userSetpoint], LAMBDA a0 :
  With(updateSensors(a0, t), LAMBDA u :
    LET a1 == [a0 EXCEPT !.core = u.core]
    IN IF u.err
         THEN [atp |-> [a1 EXCEPT !.state = set(a1.state, Panic).sm],
               panic |-> TRUE]
         ELSE IF ~Stopped(u.sensors)
           THEN [atp |-> a1, panic |-> FALSE]
           ELSE [atp |-> [a1 EXCEPT !.state = set(a1.state, On).sm],
                 panic |-> FALSE]))

\* alarmRoutine as it would be without the Stopped test.
alarmRoutineNoStoppedTest(a, t) ==
  With([a EXCEPT !.setpoint = EmergencyBrakeSetpoint(t)], LAMBDA a0 :
  With(updateSensors(a0, t), LAMBDA u :
    LET a1 == [a0 EXCEPT !.core = u.core]
    IN IF u.err
         THEN [atp |-> [a1 EXCEPT !.state = set(a1.state, Panic).sm],
               panic |-> TRUE]
         ELSE [atp |-> [a1 EXCEPT !.state = set(a1.state, On).sm],
               panic |-> FALSE]))

\* Atp.alarmRoutine
alarmRoutine(a, t) ==
  With([a EXCEPT !.setpoint = EmergencyBrakeSetpoint(t)], LAMBDA a0 :
  With(updateSensors(a0, t), LAMBDA u :
    LET a1 == [a0 EXCEPT !.core = u.core]
    IN IF u.err
         THEN [atp |-> [a1 EXCEPT !.state = set(a1.state, Panic).sm],
               panic |-> TRUE]
         ELSE IF ~Stopped(u.sensors)
           THEN [atp |-> a1, panic |-> FALSE]
           ELSE [atp |-> [a1 EXCEPT !.state = set(a1.state, On).sm],
                 panic |-> FALSE]))

\* shutdownRoutine as it would be without the Stopped test.
shutdownRoutineAlwaysDone(a, t) ==
  With(updateSensors(a, t), LAMBDA u :
    LET a1 == [a EXCEPT !.core = u.core]
    IN IF u.err
         THEN [atp |-> [a1 EXCEPT !.state = set(a1.state, Panic).sm],
               panic |-> TRUE, done |-> FALSE]
         ELSE [atp |-> a1, panic |-> FALSE, done |-> TRUE])

\* Atp.shutdownRoutine: done is the routine's result.
shutdownRoutine(a, t) ==
  With(updateSensors(a, t), LAMBDA u :
    LET a1 == [a EXCEPT !.core = u.core]
    IN IF u.err
         THEN [atp |-> [a1 EXCEPT !.state = set(a1.state, Panic).sm],
               panic |-> TRUE, done |-> FALSE]
         ELSE IF ~Stopped(u.sensors)
           THEN [atp |-> IF a1.state.state # Alarm
                           THEN [a1 EXCEPT !.state = set(a1.state, Alarm).sm]
                           ELSE a1,
                 panic |-> FALSE, done |-> FALSE]
           ELSE [atp |-> a1, panic |-> FALSE, done |-> TRUE])

\* startSignalRoutine as it would be without the test of the user setpoint.
startSignalRoutineNoSetpointTest(a) ==
  IF a.state.state # On
    THEN [atp |-> a, err |-> TRUE]
    ELSE [atp |-> [a EXCEPT !.state = set(a.state, Active).sm],
          err |-> FALSE]

\* Atp.startSignalRoutine
startSignalRoutine(a) ==
  IF a.state.state # On
    THEN [atp |-> a, err |-> TRUE]
    ELSE IF a.userSetpoint.Time = ZeroTime
      THEN [atp |-> a, err |-> TRUE]
      ELSE [atp |-> [a EXCEPT !.state = set(a.state, Active).sm],
            err |-> FALSE]

\* New as it would be if it did not look at the alarms of the sensors.
AtpNewNoAlarmTest(train, route, sensors, t) ==
  LET s0 == [sensors EXCEPT !.Setpoint.Time = t, !.Time = t]
      sm0 == newStateMachine
      sm1 == IF Any(s0.Warnings) THEN set(sm0, Warning).sm ELSE sm0
  IN [core |-> CoreNew(train, route, s0), userSetpoint |-> ZeroSetpoint,
      setpoint |-> s0.Setpoint, state |-> sm1, nextAlarm |-> ZeroTime]

\* atp.New(train, route, sensors) at clock value t.
AtpNew(train, route, sensors, t) ==
  LET s0 == [sensors EXCEPT !.Setpoint.Time = t, !.Time = t]
      sm0 == newStateMachine
      sm1 == IF Any(s0.Warnings) THEN set(sm0, Warning).sm ELSE sm0
      sm2 == IF Any(s0.Alarms) THEN set(sm1, Alarm).sm ELSE sm1
  IN [core |-> CoreNew(train, route, s0), userSetpoint |-> ZeroSetpoint,
      setpoint |-> s0.Setpoint, state |-> sm2, nextAlarm |-> ZeroTime]

\* The engine sensors and the state that a state routine leaves in a.
Left(a) == [Sensors |-> a.core.sensors, State |-> a.state.state]

\* The state after New has returned: the run loop is about to start.
New ==
  /\ now = 0
  /\ \E sensors \in InitSensors :
       /\ atp = AtpNew(Train, <<Track(1), Track(2)>>, sensors, 0)
       /\ lastTick = [from |-> Init, left |-> Left(atp)]
  /\ api = [closed |-> FALSE]
  /\ pc = "ops"
  /\ clients = [c \in Clients |-> Idle]
  /\ calls = 0
  /\ acceptedIn = Init
(***************************************************************************)
(* run: one action per state routine, then getRoutine, setRoutine,         *)
(* signalsRoutine and the sleep.                                           *)
(***************************************************************************)

\* The end of a state routine that is not shutdownRoutine.
AfterRoutine(r, from) ==
  /\ atp' = r.atp
  /\ pc' = IF r.panic THEN "panic" ELSE "get"
  /\ lastTick' = [from |-> from, left |-> Left(r.atp)]
  /\ UNCHANGED <<now, api, clients, calls, acceptedIn>>

OnTick ==
  /\ pc = "ops" /\ ~Halted
  /\ atp.state.state = On
  /\ \E r \in {onRoutine(atp, now)} : AfterRoutine(r, On)

ActiveTick ==
  /\ pc = "ops" /\ ~Halted
  /\ atp.state.state = Active
  /\ \E r \in {activeRoutine(atp, now)} : AfterRoutine(r, Active)

WarningTick ==
  /\ pc = "ops" /\ ~Halted
  /\ atp.state.state = Warning
  /\ \E r \in {warningRoutine(atp, now)} : AfterRoutine(r, Warning)

AlarmTick ==
  /\ pc = "ops" /\ ~Halted
  /\ atp.state.state = Alarm
  /\ \E r \in {alarmRoutine(atp, now)} : AfterRoutine(r, Alarm)

\* case Shutdown of run: when shutdownRoutine is done the state is set to Off
\* and the loop continues at its head.
ShutdownTick ==
  /\ pc = "ops" /\ ~Halted
  /\ atp.state.state = Shutdown
  /\ \E r \in {shutdownRoutine(atp, now)} :
        /\ atp' = IF r.done
                    THEN [r.atp EXCEPT !.state = set(r.atp.state, Off).sm]
                    ELSE r.atp
        /\ pc' = IF r.panic THEN "panic" ELSE IF r.done THEN "ops" ELSE "get"
        /\ lastTick' = [from |-> Shutdown, left |-> Left(r.atp)]
  /\ UNCHANGED <<now, api, clients, calls, acceptedIn>>

\* case Off of run as it would be if the loop went on to its selects
\* instead of closing the channels and breaking.
offRoutineFallsThrough ==
  /\ pc = "ops" /\ ~Halted
  /\ atp.state.state = Off
  /\ pc' = "get"
  /\ UNCHANGED <<now, atp, api, clients, calls, lastTick, acceptedIn>>

\* offRoutine and the end of run.  Closing a channel makes the send of every
\* goroutine that is handing over a request panic; a channel that is closed
\* and empty ends the range loops at once.
offRoutine ==
  /\ pc = "ops" /\ ~Halted
  /\ atp.state.state = Off
  /\ api' = [closed |-> TRUE]
  /\ clients' = [c \in Clients |->
                   IF clients[c].pc = "send"
                     THEN [clients[c] EXCEPT !.pc = "panic"]
                     ELSE clients[c]]
  /\ pc' = "exited"
  /\ UNCHANGED <<now, atp, calls, lastTick, acceptedIn>>

\* The goroutines that have passed their Off check and are handing a request
\* of kind op to the supervisor.
Sending(op) == {c \in Clients : clients[c].pc = "send" /\ clients[c].op = op}

\* What a select with a default takes from the channel of op: one of the
\* goroutines blocked in the send, the default only when there is none.
Selected(op) == IF Sending(op) = {} THEN {NoClient} ELSE Sending(op)

\* The client's call has returned with result ret.
Returned(c, ret) == [clients EXCEPT ![c].pc = "done", ![c].ret = ret]

\* getRoutine: a select with a default.
getRoutine ==
  /\ pc = "get" /\ ~Halted
  /\ \/ \E c \in Sending("Sensors") : clients' = Returned(c, getSensors(atp))
     \/ Sending("Sensors") = {} /\ UNCHANGED clients
  /\ pc' = "set"
  /\ UNCHANGED <<now, atp, api, calls, lastTick, acceptedIn>>

\* setRoutine: the select on setSetpoint, then the select on setRoute.  The
\* response channel is written only when core.SetRoute fails.
setRoutine ==
  /\ pc = "set" /\ ~Halted
  /\ \E c1 \in Selected("SetSetpoint"), c2 \in Selected("SetRoute") :
       LET a1 == IF c1 # NoClient
                   THEN [atp EXCEPT !.userSetpoint = clients[c1].arg.sp]
                   ELSE atp
           cl1 == IF c1 # NoClient THEN Returned(c1, NoReply) ELSE clients
           r == CoreSetRoute(a1.core, clients[c2].arg.route)
       IN /\ acceptedIn' = IF c1 # NoClient THEN atp.state.state
                           ELSE acceptedIn
          /\ IF c2 = NoClient
               THEN /\ atp' = a1
                    /\ clients' = cl1
                    /\ pc' = "signals"
               ELSE /\ atp' = [a1 EXCEPT !.core = r.core]
                    /\ clients' =
                         IF r.panic THEN [cl1 EXCEPT ![c2].pc = "recv"]
                         ELSE IF r.err
                           THEN [cl1 EXCEPT ![c2].pc = "done",
                                            ![c2].ret = Reply(TRUE, ZeroSensors, Init)]
                           ELSE [cl1 EXCEPT ![c2].pc = "recv"]
                    /\ pc' = IF r.panic THEN "panic" ELSE "signals"
  /\ UNCHANGED <<now, api, calls, lastTick>>

\* signalsRoutine: one select over start, stop and kill, with a default.
SignalStart ==
  /\ pc = "signals" /\ ~Halted
  /\ \E c \in Sending("Start") :
       \E r \in {startSignalRoutine(atp)} :
          /\ atp' = r.atp
          /\ clients' = Returned(c, Reply(r.err, ZeroSensors, Init))
  /\ pc' = "sleep"
  /\ UNCHANGED <<now, api, calls, lastTick, acceptedIn>>

SignalStop ==
  /\ pc = "signals" /\ ~Halted
  /\ \E c \in Sending("Stop") :
       /\ atp' = IF atp.state.state # Shutdown
                   THEN [atp EXCEPT !.state = set(atp.state, Shutdown).sm]
                   ELSE atp
       /\ clients' = Returned(c, NoReply)
  /\ pc' = "sleep"
  /\ UNCHANGED <<now, api, calls, lastTick, acceptedIn>>

SignalKill ==
  /\ pc = "signals" /\ ~Halted
  /\ \E c \in Sending("Kill") :
       /\ atp' = [atp EXCEPT !.state = set(atp.state, Off).sm]
       /\ clients' = Returned(c, NoReply)
  /\ pc' = "sleep"
  /\ UNCHANGED <<now, api, calls, lastTick, acceptedIn>>

SignalDefault ==
  /\ pc = "signals" /\ ~Halted
  /\ Sending("Start") \cup Sending("Stop") \cup Sending("Kill") = {}
  /\ pc' = "sleep"
  /\ UNCHANGED <<now, atp, api, clients, calls, lastTick, acceptedIn>>

\* time.Sleep at the end of the loop body: an iteration of the loop lasts
\* one clock unit.
Sleep ==
  /\ pc = "sleep" /\ ~Halted
  /\ now + 1 <= MaxTime
  /\ now' = now + 1
  /\ pc' = "ops"
  /\ UNCHANGED <<atp, api, clients, calls, lastTick, acceptedIn>>

(***************************************************************************)
(* The clients: the exported methods of Atp.                               *)
(***************************************************************************)

\* The Off check as it would be if the closed channel were never noticed.
notifyOffNeverReady == FALSE

\* case <-atp.api.notifyOff: the receive succeeds once the channel is closed.
notifyOff == api.closed

\* A goroutine blocked in a send does nothing until the supervisor reaches
\* the select that receives from its channel, so a call is started right
\* before that select, or when the supervisor is about to close its channels
\* or has closed them.
CallPoint(op) ==
  \/ pc = "get" /\ op = "Sensors"
  \/ pc = "set" /\ op \in {"SetSetpoint", "SetRoute"}
  \/ pc = "signals" /\ op \in {"Start", "Stop", "Kill"}
  \/ pc = "ops" /\ atp.state.state = Off
  \/ pc = "exited"

\* A method called by idle client c: when atp has finished running it
\* returns off at once, otherwise it starts handing over its request.
Call(c, op, arg, off) ==
  /\ ~Halted
  /\ CallPoint(op)
  /\ clients[c].pc = "idle"
  /\ \A d \in Clients : d < c => clients[d].pc # "idle"
  /\ clients' = [clients EXCEPT ![c] =
                   IF notifyOff
                     THEN [pc |-> "done", op |-> op, arg |-> NoArg, ret |-> off]
                     ELSE [pc |-> "send", op |-> op, arg |-> arg, ret |-> NoReply]]
  /\ calls < MaxCalls
  /\ calls' = calls + 1
  /\ UNCHANGED <<now, atp, api, pc, lastTick, acceptedIn>>

Sensors(c) == Call(c, "Sensors", NoArg, getSensors(atp))

SetSetpoint(c) ==
  \E v \in UserSetpoints :
    Call(c, "SetSetpoint", [NoArg EXCEPT !.sp = Setpoint(v, now)], NoReply)

SetRoute(c) ==
  \E route \in Routes :
    Call(c, "SetRoute", [NoArg EXCEPT !.route = route], NoReply)

Start(c) == Call(c, "Start", NoArg, NoReply)

Stop(c) == Call(c, "Stop", NoArg, NoReply)

Kill(c) == Call(c, "Kill", NoArg, NoReply)

\* The caller takes the result; the client is free for its next call.
Return(c) ==
  /\ ~Crashed
  /\ clients[c].pc = "done"  
  /\ clients' = [clients EXCEPT ![c] = Idle]
  /\ UNCHANGED <<now, atp, api, pc, calls, lastTick, acceptedIn>>

Next ==
  \/ OnTick
  \/ ActiveTick
  \/ WarningTick
  \/ AlarmTick
  \/ ShutdownTick
  \/ offRoutine
  \/ getRoutine
  \/ setRoutine
  \/ SignalStart
  \/ SignalStop
  \/ SignalKill
  \/ SignalDefault
  \/ Sleep
  \/ \E c \in Clients :
       \/ Sensors(c)
       \/ SetSetpoint(c)
       \/ SetRoute(c)
       \/ Start(c)
       \/ Stop(c)
       \/ Kill(c)
       \/ Return(c)

Spec == New /\ [][Next]_vars

\* The steps of the goroutine started by New: one iteration of the loop of
\* run is a state routine, getRoutine, setRoutine, signalsRoutine and the
\* sleep.
run ==
  \/ OnTick
  \/ ActiveTick
  \/ WarningTick
  \/ AlarmTick
  \/ ShutdownTick
  \/ offRoutine
  \/ getRoutine
  \/ setRoutine
  \/ SignalStart
  \/ SignalStop
  \/ SignalKill
  \/ SignalDefault
  \/ Sleep

\* The same program under the scheduler's guarantees: the goroutine of run
\* is never starved while it can take a step, and a caller whose method has
\* returned goes on.  Nothing obliges a client to make a call, and nothing
\* obliges a select to prefer one ready channel.
LiveSpec ==
  /\ New
  /\ [][Next]_vars
  /\ WF_vars(run)
  /\ \A c \in Clients : WF_vars(Return(c))

(***************************************************************************)
(* stateMachine.set on its own: every state and previous state a machine   *)
(* can hold, every target.  lastTick holds the last call: the state it was *)
(* made in, its argument and whether it returned an error.                 *)
(***************************************************************************)

SetInit ==
  /\ now = 0
  /\ \E from \in States, prev \in States :
       atp = [AtpNew(Train, <<Track(1), Track(2)>>,
                     [ZeroSensors EXCEPT !.TrackID = 1, !.Mass = Train.Mass], 0)
                EXCEPT !.state = [state |-> from, prevState |-> prev]]
  /\ api = [closed |-> FALSE]
  /\ pc = "ops"
  /\ clients = [c \in Clients |-> Idle]
  /\ calls = 0
  /\ lastTick = [from |-> Init, to |-> Init, err |-> FALSE]
  /\ acceptedIn = Init

\* atp.state.set(to)
SetCall ==
  \E to \in States :
    \E r \in {set(atp.state, to)} :
      /\ atp' = [atp EXCEPT !.state = r.sm]
      /\ lastTick' = [from |-> atp.state.state, to |-> to, err |-> r.err]
      /\ calls' = 1
      /\ UNCHANGED <<now, api, pc, clients, acceptedIn>>

SetNext == SetCall

SetSpec == SetInit /\ [][SetNext]_vars
(***************************************************************************)
(* New on its own: the sensors handed to New hold any combination of       *)
(* warnings and alarms; pc is "new" until New has built the Atp.  lastTick  *)
(* holds the arguments of the call.                                        *)
(***************************************************************************)

\* The Atp{} that exists before New has filled it in.
ZeroAtp ==
  [core |-> [train |-> Train, tracks |-> << >>, route |-> << >>,
             sensors |-> ZeroSensors],
   userSetpoint |-> ZeroSetpoint, setpoint |-> ZeroSetpoint,
   state |-> [state |-> Init, prevState |-> Init], nextAlarm |-> ZeroTime]

\* The warnings and the alarms that the sensors handed to New may hold.
NewWarnings ==
  {NoWarnings,
   AppendOutOfBounds(NoWarnings, OutOfBounds(VelocityError, 0, 1, 2)),
   AppendOutOfBounds(NoWarnings, OutOfBounds(AccelerationError, -2, 1, 2))}

NewAlarms ==
  {NoWarnings,
   AppendHeartbeat(NoWarnings, Heartbeat(0, updateTimeout)),
   AppendOutOfBounds(NoWarnings, OutOfBounds(ForceError, 0, 1, 2))}

NewSensors ==
  {[ZeroSensors EXCEPT !.Velocity = v, !.Acceleration = a, !.TrackID = 1,
                       !.Mass = Train.Mass, !.Warnings = w, !.Alarms = al] :
     v \in {0, 1, 2}, a \in {-2, 0, 1}, w \in NewWarnings, al \in NewAlarms}

NewInit ==
  /\ now = 0
  /\ atp = ZeroAtp
  /\ \E sensors \in NewSensors, route \in Routes :
       lastTick = [sensors |-> sensors, route |-> route]
  /\ api = [closed |-> FALSE]
  /\ pc = "new"
  /\ clients = [c \in Clients |-> Idle]
  /\ calls = 0
  /\ acceptedIn = Init

\* atp.New(train, route, sensors), up to the start of run.
NewCall ==
  /\ pc = "new"
  /\ atp' = AtpNew(Train, lastTick.route, lastTick.sensors, now)
  /\ pc' = "ops"
  /\ UNCHANGED <<now, api, clients, calls, lastTick, acceptedIn>>

NewNext == NewCall

NewSpec == NewInit /\ [][NewNext]_vars

(***************************************************************************)
(* core.UpdateSensorsAcceleration on its own: a core built by core.New     *)
(* from a route over level and sloped tracks and from sensors of any       *)
(* velocity, acceleration and position, then one update with any setpoint  *)
(* and any target time, the times before the sensors' own included.        *)
(* A successful update may be repeated with the same arguments.            *)
(* core.SetRoute may be called once, before or after the first update.     *)
(* lastTick holds the call: the core it was made on, its arguments, the    *)
(* sensors returned and the error flag.                                    *)
(***************************************************************************)

\* Tracks 3 and 4 climb and descend steeply enough for the slope resistance
\* to exceed the train's MaxTraction and to fall below -MaxBrake.
EngineTrack(id) ==
  IF id = 3
    THEN [ID |-> 3, Length |-> 4, MaxVelocity |-> 2, Slope |-> 4,
          BendRadius |-> 1000000, Tunnel |-> FALSE]
    ELSE IF id = 4
      THEN [ID |-> 4, Length |-> 4, MaxVelocity |-> 2, Slope |-> -4,
            BendRadius |-> 1000000, Tunnel |-> FALSE]
      ELSE Track(id)

EngineTrackIDs == {1, 2, 3, 4}

\* The routes handed to core.New: no track, one track, two tracks.
EngineRoutes ==
  {<< >>} \cup {<<EngineTrack(i)>> : i \in EngineTrackIDs}
          \cup {<<EngineTrack(i), EngineTrack(j)>> :
                  i \in EngineTrackIDs, j \in EngineTrackIDs}

\* The sensors handed to core.New, taken at time 2 with a setpoint of time 0.
EngineSensors ==
  {[ZeroSensors EXCEPT !.Time = 2, !.Setpoint = Setpoint(0, 0),
                       !.Velocity = v, !.Acceleration = a,
                       !.RelPosition = rel, !.Position = 10 + rel,
                       !.Mass = Train.Mass] :
     v \in {0, 1, 2, 3}, a \in {-2, 0, 1}, rel \in {0, 2, 3, 4, 5}}

EngineSetpoints == {NegInf, -4, -3, -2, 0, 1, 2, 5, 6}

CoreInit ==
  /\ now = 0
  /\ \E route \in EngineRoutes, sensors \in EngineSensors :
       /\ atp = [AtpNew(Train, route, sensors, 0)
                   EXCEPT !.core = CoreNew(Train, route, sensors)]
       /\ lastTick = [prev |-> CoreNew(Train, route, sensors),
                      sp |-> ZeroSetpoint, until |-> 0,
                      sensors |-> ZeroSensors, err |-> FALSE]
  /\ api = [closed |-> FALSE]
  /\ pc = "ops"
  /\ clients = [c \in Clients |-> Idle]
  /\ calls = 0
  /\ acceptedIn = Init

\* atp.core.UpdateSensorsAcceleration(sp, until)
CoreUpdate ==
  /\ calls = 0
  /\ \E value \in EngineSetpoints, until \in 0..MaxTime :
       \E r \in {UpdateSensorsAcceleration(atp.core, Setpoint(value, until),
                                           until)} :
         /\ atp' = [atp EXCEPT !.core = r.core]
         /\ lastTick' = [prev |-> atp.core, sp |-> Setpoint(value, until),
                         until |-> until, sensors |-> r.sensors,
                         err |-> r.err]
         /\ calls' = 1
         /\ UNCHANGED <<now, api, pc, clients, acceptedIn>>

\* atp.core.UpdateSensorsAcceleration called once more with the setpoint and
\* the target time of the update that has just succeeded.
CoreRepeat ==
  /\ calls = 1
  /\ ~lastTick.err
  /\ \E r \in {UpdateSensorsAcceleration(atp.core, lastTick.sp,
                                          lastTick.until)} :
       /\ atp' = [atp EXCEPT !.core = r.core]
       /\ lastTick' = [prev |-> atp.core, sp |-> lastTick.sp,
                       until |-> lastTick.until, sensors |-> r.sensors,
                       err |-> r.err]
       /\ calls' = 2
       /\ UNCHANGED <<now, api, pc, clients, acceptedIn>>

\* The routes handed to core.SetRoute: one track or two, so that the head can
\* agree or disagree with the route of the core.
EngineNewRoutes ==
  {<<EngineTrack(1)>>, <<EngineTrack(3)>>, <<EngineTrack(1), EngineTrack(2)>>}

\* atp.core.SetRoute(route) on a core as core.New built it or as one update
\* left it, whether that update succeeded or failed.  lastTick holds the
\* call: the core it was made on, whether that core came out of a
\* successful update, the route handed over and the error flag.
CoreSetRouteCall ==
  /\ calls \in {0, 1}
  /\ \E route \in EngineNewRoutes :
       \E r \in {CoreSetRoute(atp.core, route)} :
         /\ atp' = [atp EXCEPT !.core = r.core]
         /\ lastTick' = [prev |-> atp.core,
                         updated |-> (calls = 1 /\ ~lastTick.err),
                         route |-> RouteIDs(route), err |-> r.err]
         /\ calls' = 3
         /\ UNCHANGED <<now, api, pc, clients, acceptedIn>>

CoreNext == CoreUpdate \/ CoreRepeat \/ CoreSetRouteCall

CoreSpec == CoreInit /\ [][CoreNext]_vars
(***************************************************************************)
(* Properties                                                              *)
(***************************************************************************)

sensorsNow == atp.core.sensors

\* Client c's request of kind op is received by the supervisor in this step.
Accepted(c, op) ==
  /\ clients[c].pc = "send"
  /\ clients[c].op = op
  /\ clients'[c].pc \in {"done", "recv"}

\* C1: every tick that starts in state Alarm steps the engine with the
\* emergency-brake setpoint (value -infinity), whatever the user setpoint is.
C1_AlarmStepsWithEmergencyBrake ==
  (lastTick.from = Alarm /\ pc # "panic") =>
    /\ atp.setpoint.Value = NegInf
    /\ sensorsNow.Setpoint.Value = NegInf

\* An Alarm tick that follows a finite user setpoint accepted in state Alarm.
C1_Witness ==
  /\ lastTick.from = Alarm
  /\ acceptedIn = Alarm
  /\ atp.userSetpoint.Value = 1
  /\ atp.userSetpoint.Time < sensorsNow.Time
  /\ sensorsNow.Setpoint.Value = NegInf

\* C2: a Shutdown tick whose sensors are not Stopped sets the state to Alarm
\* and the loop goes on; one whose sensors are Stopped sets the state to Off
\* and the loop ends; Off is entered from Shutdown only with Stopped sensors.
C2_ShutdownTick ==
  /\ (lastTick.from = Shutdown /\ pc # "panic") =>
       IF Stopped(sensorsNow)
         THEN /\ atp.state = [state |-> Off, prevState |-> Shutdown]
              /\ pc \in {"ops", "exited"}
         ELSE pc = "get" => atp.state = [state |-> Alarm, prevState |-> Shutdown]
  /\ (atp.state.state = Off /\ atp.state.prevState = Shutdown) =>
       (lastTick.from = Shutdown /\ Stopped(sensorsNow))

\* A Shutdown tick of a moving train has set the state to Alarm.
C2_Witness ==
  /\ lastTick.from = Shutdown
  /\ pc = "get"
  /\ sensorsNow.Velocity > 0
  /\ atp.state.state = Alarm

\* C3: start() received in state On after a setpoint was accepted sets the
\* state to Active and returns no error; any other start() returns an error
\* and changes neither the state nor the previous state.
C3_Start ==
  [][\A c \in Clients :
       (pc = "signals" /\ Accepted(c, "Start")) =>
         IF atp.state.state = On /\ acceptedIn # Init
           THEN /\ atp'.state = [state |-> Active, prevState |-> On]
                /\ clients'[c].pc = "done"
                /\ ~clients'[c].ret.err
           ELSE /\ clients'[c].pc = "done"
                /\ clients'[c].ret.err
                /\ atp'.state = atp.state]_vars

\* Start has returned without error and the state is Active.
C3_Witness ==
  \E c \in Clients :
    /\ clients[c].pc = "done"
    /\ clients[c].op = "Start"
    /\ ~clients[c].ret.err
    /\ atp.state = [state |-> Active, prevState |-> On]

\* C4: after a tick that starts in Active with a stopped train, a user
\* setpoint of zero acceleration younger than the heartbeat threshold and
\* sensors without warnings, the state is still Active, however long the
\* supervisor was On before the start.
C4_ActiveStaysActive ==
  (/\ lastTick.from = Active
   /\ pc = "get"
   /\ atp.userSetpoint.Value = 0
   /\ Stopped(sensorsNow)
   /\ sensorsNow.Time - atp.userSetpoint.Time < updateTimeout
   /\ ~Any(sensorsNow.Warnings)) =>
    atp.state.state = Active

\* C5: no Sensors() reply that reports state On holds a Heartbeat alarm.
C5_NoHeartbeatWhileOn ==
  \A c \in Clients :
    (clients[c].pc = "done" /\ clients[c].op = "Sensors"
     /\ clients[c].ret.State = On) =>
      Len(clients[c].ret.Sensors.Alarms.Heartbeat) = 0

\* C6: a SetRoute whose first track is the head of the engine's route returns
\* to its caller without error and the engine's route is the submitted one.
C6_SetRouteAccepted ==
  [][\A c \in Clients :
       (/\ pc = "set"
        /\ Accepted(c, "SetRoute")
        /\ Len(atp.core.route) > 0
        /\ Len(clients[c].arg.route) > 0
        /\ clients[c].arg.route[1].ID = atp.core.route[1]) =>
         /\ clients'[c].pc = "done"
         /\ ~clients'[c].ret.err
         /\ atp'.core.route = RouteIDs(clients[c].arg.route)]_vars

\* C7: a SetRoute whose first track is not the head of the engine's non-empty
\* route returns an error, changes neither the engine nor the state, and the
\* supervisor goes on to its signals step.
C7_SetRouteRejected ==
  [][\A c \in Clients :
       (/\ pc = "set"
        /\ Accepted(c, "SetRoute")
        /\ Len(atp.core.route) > 0
        /\ Len(clients[c].arg.route) > 0
        /\ clients[c].arg.route[1].ID # atp.core.route[1]) =>
         /\ clients'[c].pc = "done"
         /\ clients'[c].ret.err
         /\ atp'.core = atp.core
         /\ atp'.state = atp.state
         /\ pc' = "signals"]_vars

\* SetRoute has returned an error and the supervisor is at its signals step.
C7_Witness ==
  \E c \in Clients :
    /\ clients[c].pc = "done"
    /\ clients[c].op = "SetRoute"
    /\ clients[c].ret.err
    /\ pc = "signals"
    /\ atp.core.route = <<1, 2>>

\* C8: kill() received in a running state sets the state to Off in that
\* signals step, whatever the sensors are, and the next loop iteration
\* closes the channels and ends the loop.
C8_Kill ==
  [][/\ \A c \in Clients :
          (pc = "signals" /\ Accepted(c, "Kill")) =>
            /\ atp'.state = [state |-> Off, prevState |-> atp.state.state]
            /\ atp'.core = atp.core
            /\ pc' = "sleep"
     /\ (pc = "ops" /\ atp.state.state = Off /\ pc' # pc) =>
          (pc' = "exited" /\ api'.closed)]_vars

\* The supervisor has ended after a kill() received in Active while moving.
C8_Witness ==
  /\ atp.state = [state |-> Off, prevState |-> Active]
  /\ ~Stopped(sensorsNow)
  /\ pc = "exited"
  /\ api.closed

\* C9: a Sensors() call that is handing over its reply channel when the
\* supervisor closes its channels returns the last sensors and state Off.
C9_PendingSensorsServed ==
  [][\A c \in Clients :
       (/\ pc = "ops"
        /\ pc' = "exited"
        /\ clients[c].pc = "send"
        /\ clients[c].op = "Sensors") =>
         /\ clients'[c].pc = "done"
         /\ clients'[c].ret = Reply(FALSE, sensorsNow, Off)]_vars

\* C10: once the channels are closed every call returns at once, the
\* supervisor's data is never changed again, Start and SetRoute return no
\* error and Sensors returns the last sensors with state Off.
C10_AfterOff ==
  [][api.closed =>
       /\ atp' = atp
       /\ api' = api
       /\ pc' = pc
       /\ \A c \in Clients :
            (clients[c].pc = "idle" /\ clients'[c] # clients[c]) =>
              /\ clients'[c].pc = "done"
              /\ clients'[c].ret =
                   IF clients'[c].op = "Sensors"
                     THEN Reply(FALSE, sensorsNow, Off)
                     ELSE NoReply]_vars

\* Sensors() called after the end of the supervisor has returned.
C10_Witness ==
  \E c \in Clients :
    /\ api.closed
    /\ clients[c].pc = "done"
    /\ clients[c].op = "Sensors"
    /\ clients[c].ret = Reply(FALSE, sensorsNow, Off)

\* C11: a Warning tick whose engine step records neither a warning nor an
\* alarm ends in the state held before Warning when that state is On or
\* Active.
C11_WarningReverts ==
  [][(/\ pc = "ops" /\ pc' = "get"
      /\ atp.state.state = Warning
      /\ atp.state.prevState \in {On, Active}
      /\ ~Any(atp'.core.sensors.Warnings)
      /\ ~Any(atp'.core.sensors.Alarms)) =>
       atp'.state.state = atp.state.prevState]_vars

C13_HeartbeatAlarm ==
  (/\ lastTick.from = Active
   /\ pc = "get"
   /\ sensorsNow.Time - atp.userSetpoint.Time > updateTimeout) =>
    /\ Len(sensorsNow.Alarms.Heartbeat) >= 1
    /\ atp.state.state = Alarm

\* C14: an Alarm tick sets the state to On exactly when its sensors are
\* Stopped and leaves the state alone otherwise; apart from that the state
\* leaves Alarm only when stop() or kill() is received.
C14_AlarmUntilStopped ==
  [][/\ (pc = "ops" /\ pc' = "get" /\ atp.state.state = Alarm) =>
          IF Stopped(atp'.core.sensors)
            THEN atp'.state = [state |-> On, prevState |-> Alarm]
            ELSE atp'.state = atp.state
     /\ (atp.state.state = Alarm /\ atp'.state # atp.state) =>
          \/ pc = "ops" /\ pc' \in {"get", "panic"}
          \/ /\ pc = "signals"
             /\ \E c \in Clients : Accepted(c, "Stop") \/ Accepted(c, "Kill")]_vars

\* An Alarm tick has stopped a train that was still moving after the Alarm
\* tick before it, and the state is On.
C14_Witness ==
  /\ lastTick.from = Alarm
  /\ pc = "get"
  /\ Stopped(sensorsNow)
  /\ sensorsNow.Position > 0
  /\ sensorsNow.Setpoint.Value = NegInf
  /\ atp.state = [state |-> On, prevState |-> Alarm]

\* C15: an Alarm tick that follows an Alarm tick (so the train was not
\* Stopped after that one) reports a velocity strictly lower than the tick
\* before it.
C15_AlarmBrakes ==
  [][(/\ pc = "ops" /\ pc' = "get"
      /\ lastTick.from = Alarm
      /\ atp.state.state = Alarm) =>
       atp'.core.sensors.Velocity < atp.core.sensors.Velocity]_vars

C17_TickClassification ==
  [][(/\ pc = "ops" /\ pc' = "get"
      /\ atp.state.state \in {On, Active}) =>
       LET new == atp'.core.sensors
           alarms == IF atp.state.state = On
                       THEN [new.Alarms EXCEPT !.Heartbeat = << >>]
                       ELSE new.Alarms
       IN atp'.state.state =
            IF Any(alarms) THEN Alarm
            ELSE IF Any(new.Warnings) THEN Warning
            ELSE atp.state.state]_vars

\* An Active tick whose sensors hold a warning and an alarm has ended in
\* Alarm.
C17_Witness ==
  /\ lastTick.from = Active
  /\ pc = "get"
  /\ Any(sensorsNow.Warnings)
  /\ Any(sensorsNow.Alarms)
  /\ atp.state = [state |-> Alarm, prevState |-> Warning]

\* The transition table: the pairs (from, to) with from # to that set is to
\* accept.
TransitionTable ==
  {<<from, to>> : from \in States, to \in {Alarm, Panic, Shutdown}}
    \cup {<<On, Active>>, <<On, Warning>>, <<Active, On>>, <<Active, Warning>>,
          <<Warning, Active>>, <<Warning, On>>, <<Alarm, On>>, <<Shutdown, Off>>}

\* C18: set(to) called in state from returns no error exactly when to = from
\* or (from, to) is a pair of the transition table; it then leaves the
\* machine in state to, and leaves it alone when it returns an error.
C18_SetTable ==
  calls = 1 =>
    /\ ~lastTick.err <=>
         (lastTick.from = lastTick.to
          \/ <<lastTick.from, lastTick.to>> \in TransitionTable)
    /\ atp.state.state = IF lastTick.err THEN lastTick.from ELSE lastTick.to

\* The states in which the supervisor runs.
RunningStates == {On, Active, Warning, Alarm, Shutdown}

\* A step changes the machine from sm to sm2 by pairs of table: by one pair,
\* the state left being recorded as the previous state, or by two pairs
\* through the recorded previous state.
ByPairsOf(table, sm, sm2) ==
  \/ sm2.prevState = sm.state /\ <<sm.state, sm2.state>> \in table
  \/ /\ <<sm.state, sm2.prevState>> \in table
     /\ <<sm2.prevState, sm2.state>> \in table

C20_EngineErrorPanics ==
  [][/\ (/\ pc = "ops" /\ pc' # pc
         /\ atp.state.state \in RunningStates
         /\ UpdateSensors(atp.core, atp.setpoint, now).err) =>
          /\ pc' = "panic"
          /\ atp'.state = [state |-> Panic, prevState |-> atp.state.state]
     /\ ~(pc = "panic" /\ atp.state.state = Panic)]_vars

\* A tick on a route that has run out has ended in Panic.
C20_Witness ==
  /\ pc = "panic"
  /\ atp.state.state = Panic
  /\ Len(atp.core.route) = 0

\* The engine update of CoreSpec has been made; lastTick holds the call.
Updated == calls = 1 /\ "until" \in DOMAIN lastTick

\* C21: an engine update whose target time is earlier than the time of the
\* previous sensors returns an error and leaves the sensors and the route of
\* the engine as they were.
C21_NegativeElapsedIsError ==
  (Updated /\ lastTick.until < lastTick.prev.sensors.Time)
    => /\ lastTick.err
       /\ atp.core.sensors = lastTick.prev.sensors
       /\ atp.core.route = lastTick.prev.route

\* The engine update of CoreSpec has succeeded on a target time that is not
\* before the time of the previous sensors.
UpdatedForward ==
  Updated /\ ~lastTick.err /\ lastTick.until >= lastTick.prev.sensors.Time

\* C22: the sensors produced by an engine update hold a traction force
\* between 0 and the train's MaxTraction and a braking force between 0 and
\* the train's MaxBrake, whatever the train, the track and the setpoint,
\* also on tracks whose resistance is below -MaxBrake or above MaxTraction.
C22_ForcesWithinLimits ==
  UpdatedForward
    => /\ 0 <= lastTick.sensors.TractionForce
       /\ lastTick.sensors.TractionForce <= lastTick.prev.train.MaxTraction
       /\ 0 <= lastTick.sensors.BrakingForce
       /\ lastTick.sensors.BrakingForce <= lastTick.prev.train.MaxBrake

\* C23: after every engine update over a non-negative elapsed time the
\* velocity is not negative, the traction force or the braking force is 0,
\* and the cumulative position is not smaller than in the previous sensors.
C23_VelocityForcesPosition ==
  UpdatedForward
    => /\ lastTick.sensors.Velocity >= 0
       /\ \/ lastTick.sensors.TractionForce = 0
          \/ lastTick.sensors.BrakingForce = 0
       /\ lastTick.sensors.Position >= lastTick.prev.sensors.Position

\* A moving train decelerated over a positive elapsed time to a standstill
\* that the engine had to clamp, braking, further along the line.
C23_Witness ==
  /\ UpdatedForward
  /\ lastTick.until > lastTick.prev.sensors.Time
  /\ lastTick.prev.sensors.Velocity > 0
  /\ lastTick.prev.sensors.Velocity
       + (lastTick.until - lastTick.prev.sensors.Time)
         * lastTick.prev.sensors.Acceleration < 0
  /\ lastTick.sensors.Velocity = 0
  /\ lastTick.sensors.Position > lastTick.prev.sensors.Position
  /\ lastTick.sensors.BrakingForce # 0
  /\ lastTick.sensors.TractionForce = 0

\* C24: an engine update removes the head of the route exactly when the
\* relative position of the previous sensors is strictly greater than the
\* length of the head track, removes one track at most, takes the new head
\* as the current track, and returns an error when no track remains after
\* the removal (or when there was none to begin with).
C24_RouteAdvance ==
  Updated =>
    LET prev == lastTick.prev
        head == prev.tracks[prev.route[1]]
    IN IF Len(prev.route) = 0
         THEN lastTick.err /\ atp.core.route = << >>
         ELSE IF prev.sensors.RelPosition > head.Length
           THEN /\ atp.core.route = Tail(prev.route)
                /\ lastTick.err <=> Len(prev.route) = 1
                /\ ~lastTick.err =>
                     /\ lastTick.sensors.TrackID = prev.route[2]
                     /\ lastTick.sensors.Slope = prev.tracks[prev.route[2]].Slope
                     /\ lastTick.sensors.Tunnel = prev.tracks[prev.route[2]].Tunnel
           ELSE /\ atp.core.route = prev.route
                /\ ~lastTick.err
                /\ lastTick.sensors.TrackID = prev.route[1]
                /\ lastTick.sensors.Slope = head.Slope
                /\ lastTick.sensors.Tunnel = head.Tunnel

\* The train is one position unit past the end of the level track 1 and
\* the route goes on with the steeper, longer track 3, which the train has
\* also outrun: track 1 is removed, track 3 becomes the current track and
\* stays on the route.
C24_Witness ==
  /\ Updated
  /\ lastTick.prev.route = <<1, 3>>
  /\ lastTick.prev.sensors.RelPosition = 5
  /\ ~lastTick.err
  /\ atp.core.route = <<3>>
  /\ lastTick.sensors.TrackID = 3
  /\ lastTick.sensors.Slope = 4

\* Client c holds the reply of a Sensors() call that has just returned.
SensorsReply(c) == clients[c].pc = "done" /\ clients[c].op = "Sensors"

\* C25: every Sensors() reply is the pair of engine sensors and state that
\* the most recently completed state routine left: the sensors are the
\* output of that routine's engine update and the state is the one the same
\* routine ended in.
C25_ReplyIsLastTick ==
  \A c \in Clients :
    SensorsReply(c) =>
      /\ clients[c].ret.Sensors = lastTick.left.Sensors
      /\ clients[c].ret.State = lastTick.left.State

\* C25 as the program has it: a reply handed over by the run loop is the pair
\* left by the state routine of the same iteration, whose engine update was
\* made at the current clock value; a reply made after the channels were
\* closed holds the sensors left by the last state routine and the state Off.
C25_ReplyIsLastTickOrOff ==
  \A c \in Clients :
    SensorsReply(c) =>
      /\ clients[c].ret.Sensors = lastTick.left.Sensors
      /\ IF api.closed
           THEN clients[c].ret.State = Off
           ELSE /\ clients[c].ret.State = lastTick.left.State
                /\ clients[c].ret.Sensors.Time = now
                /\ clients[c].ret.Sensors.Setpoint = atp.setpoint
                /\ pc = "set"

\* A reply of the run loop after a routine that started in Active and ended
\* in Warning: sensors with a warning and the new state together.
C25_Witness ==
  \E c \in Clients :
    /\ SensorsReply(c)
    /\ ~api.closed
    /\ lastTick.from = Active
    /\ clients[c].ret.State = Warning
    /\ Any(clients[c].ret.Sensors.Warnings)
    /\ clients[c].ret.Sensors.Time = now
    /\ now > 0

\* C26: at every tick, in every state, the engine records a Heartbeat alarm
\* exactly when the time from the user's most recently accepted setpoint to
\* the instant of the tick has reached the heartbeat threshold, and this
\* depends on nothing else.  Stated for the ticks made once a user setpoint
\* has been accepted, right after the state routine.
C26_HeartbeatFromUserSetpoint ==
  (pc = "get" /\ atp.userSetpoint.Time # ZeroTime)
    => (Len(sensorsNow.Alarms.Heartbeat) >= 1
          <=> now - atp.userSetpoint.Time >= updateTimeout)

\* C27: the engine records a Heartbeat alarm only when the time from the
\* last setpoint to the target time is strictly greater than the threshold:
\* an update made exactly 5 s after the last setpoint records none.
C27_HeartbeatStrictlyAfter ==
  (Updated /\ ~lastTick.err /\ Len(lastTick.sensors.Alarms.Heartbeat) >= 1)
    => lastTick.until - lastTick.prev.sensors.Setpoint.Time > updateTimeout

\* C28: the dwell deadline nextAlarm is unarmed (the zero time) whenever the
\* state is not Warning, also after Warning was left through a Heartbeat
\* alarm, stop() or kill(), so that the escalation of each stay in Warning
\* comes no earlier than the warning timeout after its first tick with
\* warnings.
C28_DeadlineOnlyInWarning ==
  atp.state.state # Warning => atp.nextAlarm = ZeroTime

\* C29: whenever the state machine rejects a set() call of the supervisor,
\* the supervisor goes to Panic and terminates; it never goes on in the old
\* state.  The call checked is the one warningRoutine makes: the engine
\* update of a Warning tick succeeds with neither warnings nor alarms, so the
\* routine calls set(prev) with prev the state before Warning, and canSet
\* has no such transition.
C29_RejectedSetPanics ==
  [][(/\ pc = "ops"
      /\ pc' \in {"get", "panic"}
      /\ atp.state.state = Warning
      /\ atp.state.prevState \in {On, Active}
      /\ atp'.core.sensors.Time = now
      /\ ~Any(atp'.core.sensors.Warnings)
      /\ ~Any(atp'.core.sensors.Alarms)
      /\ set(atp.state, atp.state.prevState).err)
       => (atp'.state.state = Panic /\ pc' = "panic")]_vars

\* The greatest acceleration the train can reach with the resistance of the
\* sensors returned: (MaxTraction - Resistance) / (Mass * MassFactor).
AMax ==
  (lastTick.prev.train.MaxTraction - lastTick.sensors.Resistance)
    \div (lastTick.sensors.Mass * lastTick.prev.train.MassFactor)

\* The sensors returned hold an Acceleration warning.
AccelerationWarning ==
  \E i \in 1..Len(lastTick.sensors.Warnings.OutOfBounds) :
    lastTick.sensors.Warnings.OutOfBounds[i].Type = AccelerationError

\* C30: the engine records an Acceleration warning and sets the acceleration
\* to a_max exactly when the setpoint is greater than a_max, whatever the
\* signs of a_max and of the setpoint; a setpoint equal to a_max is applied
\* as it is, without a warning.  Stated for the updates over a non-negative
\* elapsed time that leave the train moving faster than the velocity below
\* which the engine forbids the reverse gear, and, for the absence of the
\* warning, for the setpoints that are not negative.
C30_ClampAtAMax ==
  (UpdatedForward /\ lastTick.sensors.Velocity > Epsilon)
    => IF lastTick.sp.Value > AMax
         THEN /\ AccelerationWarning
              /\ lastTick.sensors.Acceleration = AMax
         ELSE lastTick.sp.Value >= 0 =>
                /\ ~AccelerationWarning
                /\ lastTick.sensors.Acceleration = lastTick.sp.Value

\* The strongest deceleration the train can reach with the resistance of the
\* sensors returned: (-MaxBrake - Resistance) / (Mass * MassFactor).
AMin ==
  ((-1) * lastTick.prev.train.MaxBrake - lastTick.sensors.Resistance)
    \div (lastTick.sensors.Mass * lastTick.prev.train.MassFactor)

\* C31: an engine update with the emergency-brake setpoint and a velocity of
\* at least 0.01 m/s sets the acceleration to a_min and records no
\* Acceleration warning; a finite setpoint below a_min is clamped to a_min
\* and records an Acceleration warning.
C31_EmergencyBrakeSaturates ==
  (UpdatedForward /\ lastTick.sensors.Velocity >= Epsilon)
    => /\ lastTick.sp.Value = NegInf =>
            /\ lastTick.sensors.Acceleration = AMin
            /\ ~AccelerationWarning
       /\ (lastTick.sp.Value # NegInf /\ lastTick.sp.Value < AMin) =>
            /\ lastTick.sensors.Acceleration = AMin
            /\ AccelerationWarning

\* The velocity that the update integrates from the previous sensors before
\* any correction: max(0, v + deltaSec * a).
IntegratedVelocity ==
  Max(0, lastTick.prev.sensors.Velocity
           + (lastTick.until - lastTick.prev.sensors.Time)
             * lastTick.prev.sensors.Acceleration)

\* C32: whenever an engine update is called with a negative setpoint and the
\* integrated velocity is below 0.01 m/s, the sensors produced hold
\* acceleration 0 and velocity 0, whatever the clamping of the setpoint
\* would have given.
C32_NoReverse ==
  (Updated /\ ~lastTick.err /\ lastTick.sp.Value < 0
     /\ IntegratedVelocity < Epsilon)
    => /\ lastTick.sensors.Acceleration = 0
       /\ lastTick.sensors.Velocity = 0

\* A train that was moving and decelerating comes to a standstill within
\* the elapsed time on the descending track 4, where the clamping of the
\* negative setpoint would have given the positive acceleration a_min: the
\* sensors hold acceleration 0, velocity 0 and a position further along.
C32_Witness ==
  /\ UpdatedForward
  /\ lastTick.sp.Value = -2
  /\ lastTick.prev.sensors.Velocity > 0
  /\ IntegratedVelocity < Epsilon
  /\ lastTick.sensors.TrackID = 4
  /\ AMin > 0
  /\ lastTick.sensors.Acceleration = 0
  /\ lastTick.sensors.Velocity = 0
  /\ lastTick.sensors.Position > lastTick.prev.sensors.Position

\* The engine update of CoreSpec has been repeated with the same setpoint
\* and the same target time: lastTick.prev holds the core that the first
\* update left, so the elapsed time of the second update is zero.
Repeated == calls = 2 /\ "until" \in DOMAIN lastTick

\* C33: an engine update over zero elapsed time with the setpoint that
\* produced the previous sensors returns sensors equal to the previous ones
\* in position, relative position, velocity, acceleration, track, forces
\* and resistances, and leaves the route unchanged, whatever sensors the
\* engine had produced, those past the end of the current track included.
C33_ZeroElapsedRepeats ==
  Repeated =>
    LET old == lastTick.prev.sensors
        new == lastTick.sensors
    IN /\ ~lastTick.err
       /\ atp.core.route = lastTick.prev.route
       /\ new.Position = old.Position
       /\ new.RelPosition = old.RelPosition
       /\ new.Velocity = old.Velocity
       /\ new.Acceleration = old.Acceleration
       /\ new.TrackID = old.TrackID
       /\ new.TractionForce = old.TractionForce
       /\ new.BrakingForce = old.BrakingForce
       /\ new.Resistance = old.Resistance
       /\ new.BasicRes = old.BasicRes
       /\ new.SlopeRes = old.SlopeRes
       /\ new.CurveRes = old.CurveRes
       /\ new.TunnelRes = old.TunnelRes
       /\ new.LineRes = old.LineRes

\* core.SetRoute has been called in CoreSpec and has returned no error.
RouteAccepted == calls = 3 /\ "route" \in DOMAIN lastTick /\ ~lastTick.err

\* The sensors of the engine name the track at the head of its route.
OnRouteHead ==
  /\ Len(atp.core.route) >= 1
  /\ atp.core.sensors.TrackID = atp.core.route[1]

TickIn(st) ==
  /\ pc = "ops"
  /\ atp.state.state = st
  /\ lastTick'.from = st
  /\ (pc' # pc \/ atp' # atp)

\* C35: a SetSetpoint received by the supervisor only replaces the pending
\* user setpoint, and nothing else replaces it; the effective setpoint
\* changes only in the routines of Active, Warning and Alarm, where it
\* becomes the pending user setpoint (Active, Warning) or the emergency
\* brake (Alarm); the routines of On and Shutdown step the engine with the
\* effective setpoint of the previous tick.  In every routine the engine is
\* stepped with the effective setpoint.
C35_EffectiveSetpoint ==
  [][/\ \A c \in Clients :
          (pc = "set" /\ Accepted(c, "SetSetpoint")) =>
            /\ atp'.userSetpoint = clients[c].arg.sp
            /\ atp'.setpoint = atp.setpoint
            /\ atp'.state = atp.state
            /\ atp'.nextAlarm = atp.nextAlarm
            /\ atp'.core.sensors = atp.core.sensors
     /\ atp'.userSetpoint # atp.userSetpoint =>
          (pc = "set" /\ \E c \in Clients : Accepted(c, "SetSetpoint"))
     /\ atp'.setpoint # atp.setpoint =>
          (TickIn(Active) \/ TickIn(Warning) \/ TickIn(Alarm))
     /\ (TickIn(Active) \/ TickIn(Warning)) =>
          atp'.setpoint = atp.userSetpoint
     /\ TickIn(Alarm) => atp'.setpoint = EmergencyBrakeSetpoint(now)
     /\ (TickIn(On) \/ TickIn(Shutdown)) => atp'.setpoint = atp.setpoint
     /\ \A st \in RunningStates :
          (TickIn(st) /\ pc' # "panic") =>
            /\ atp'.core.sensors.Setpoint = atp'.setpoint
            /\ atp'.core.sensors.Time = now]_vars

\* An Active routine has just stepped the engine with a user setpoint that
\* was received in Active after the one start() had required.
C35_Witness ==
  /\ pc = "get"
  /\ lastTick.from = Active
  /\ acceptedIn = Active
  /\ atp.userSetpoint.Time >= 1
  /\ atp.setpoint = atp.userSetpoint
  /\ sensorsNow.Setpoint = atp.userSetpoint
  /\ sensorsNow.Time = now

\* New has returned and run has not yet called a state routine.
Constructed == pc = "ops" /\ calls = 0 /\ "sensors" \in DOMAIN lastTick

\* C36: a supervisor built from sensors without warnings or alarms starts in
\* On with previous state Init; from sensors with warnings and no alarms in
\* Warning with previous state On; from sensors with alarms in Alarm, with
\* or without warnings; all of it before the first state routine runs.
C36_InitialState ==
  Constructed =>
    IF Any(lastTick.sensors.Alarms)
      THEN atp.state.state = Alarm
      ELSE IF Any(lastTick.sensors.Warnings)
        THEN atp.state = [state |-> Warning, prevState |-> On]
        ELSE atp.state = [state |-> On, prevState |-> Init]

\* New was handed sensors with both a Velocity warning and a Heartbeat
\* alarm: the supervisor is in Alarm, reached through Warning.
C36_Witness ==
  /\ Constructed
  /\ Len(lastTick.sensors.Warnings.OutOfBounds) = 1
  /\ Len(lastTick.sensors.Alarms.Heartbeat) = 1
  /\ atp.state = [state |-> Alarm, prevState |-> Warning]
  /\ atp.core.sensors.Warnings = lastTick.sensors.Warnings

\* C37: a Start, Stop, Kill, SetSetpoint or SetRoute call that has passed
\* its Off check and is handing its request to the supervisor when the
\* supervisor closes its channels returns normally with a no-op result: it
\* neither crashes nor stays blocked.
C37_PendingCallsReturn ==
  [][\A c \in Clients :
       (/\ pc = "ops"
        /\ pc' = "exited"
        /\ clients[c].pc = "send"
        /\ clients[c].op \in {"Start", "Stop", "Kill", "SetSetpoint",
                              "SetRoute"}) =>
         /\ clients'[c].pc = "done"
         /\ clients'[c].ret = NoReply]_vars

\* Every tick gets through its selects: from getRoutine, setRoutine or
\* signalsRoutine the loop reaches its sleep, unless the engine's error
\* ends the process.
TickCompletes ==
  (pc \in {"get", "set", "signals"}) ~> (pc \in {"sleep", "panic"})

\* A kill() that is being handed over is taken by signalsRoutine, as long as
\* the process has not ended on an engine error and the clock has not
\* reached MaxTime.
PendingKillAccepted ==
  \A c \in Clients :
    (clients[c].pc = "send" /\ clients[c].op = "Kill") ~>
       (clients[c].pc = "done" \/ pc = "panic" \/ now = MaxTime)

\* C38: under fair scheduling of the supervisor and of returning callers,
\* every tick completes and every pending kill() is eventually accepted.
C38_TicksCompleteKillAccepted == TickCompletes /\ PendingKillAccepted

\* C39: from the moment the state is Off, no step changes the supervisor's
\* data: the state and its predecessor, the engine (sensors and route), the
\* effective and the pending setpoint and the alarm bookkeeping all stay as
\* they are, whatever requests are pending or made afterwards.
C39_OffIsFinal == [][atp.state.state = Off => atp' = atp]_vars

\* Off has been reached, the loop has ended, and a SetRoute made
\* afterwards, not the first call of the run, has returned.
C39_Witness ==
  /\ atp.state.state = Off
  /\ pc = "exited"
  /\ calls >= 2
  /\ \E c \in Clients : clients[c].pc = "done" /\ clients[c].op = "SetRoute"

\* C40: whenever the supervisor is in Warning the machine's previous state
\* is On or Active, and on the machine of every reachable state a set() to
\* the current state or a set() that is rejected returns the machine as it
\* was.
C40_WarningFromOnOrActive ==
  /\ atp.state.state = Warning => atp.state.prevState \in {On, Active}
  /\ \A to \in States :
       With(set(atp.state, to), LAMBDA r :
         (to = atp.state.state \/ r.err) => r.sm = atp.state)

\* The supervisor has been in Warning for more than one tick, entered from
\* Active: the routine of Warning has set Warning again or has been
\* refused the transition to On.
C40_Witness ==
  /\ atp.state.state = Warning
  /\ atp.state.prevState = Active
  /\ lastTick.from = Warning
  /\ pc = "get"

====
